---- MODULE Spec2Model ----
(***************************************************************************)
(* Model of opencode-usage.                                                *)
(*  - the record loader (src/src/loader.ts): the SQLite message table, the *)
(*    three load paths (loadMessages, loadRecentMessages,                  *)
(*    loadMessagesIncremental), the validity filter and the in-memory      *)
(*    cursor of a watch session: Spec, SpecAnyCase;                        *)
(*  - the aggregate merger that folds batches of records into the per-day  *)
(*    aggregate: SpecMerger;                                               *)
(*  - the dashboard's render loop with its per-source intervals            *)
(*    (.sisyphus/plans/unified-dashboard.md, 6d) and the remote fetch of   *)
(*    loadCodexQuota: SpecCoordinator, SpecPrompt.                         *)
(*  - a watch session of the dashboard, the loop over the record store:    *)
(*    SpecWatch;                                                           *)
(*  - loadCodexQuota (unnamed/part_002): SpecCodex;                        *)
(*  - renderUsageTable (unnamed/part_003): SpecTable;                      *)
(*  - the quota panel's relative times and the dashboard render:           *)
(*    SpecReset, SpecDashboard.                                            *)
(***************************************************************************)
EXTENDS Integers, Sequences, FiniteSets, TLC

\* ---------------------------------------------------------------- bounds
MaxRows == 2        \* rows the message table may hold
MaxTime == 2        \* largest time_created / Date.now() value (ms)

\* ------------------------------------------------------------- constants
MsPerHour == 60 * 60 * 1000          \* loader.ts:49
DefaultHoursBack == 24               \* loader.ts:46

Times == 0..MaxTime
Null == "<undefined>"                \* an absent JSON property / argument
DefaultProvider == "unknown"         \* loader.ts:37

\* ------------------------------------------------------- stored row data
\* The data column holds JSON text.  A value either fails JSON.parse or
\* parses to an object of which the loader reads role, tokens,
\* model.providerID and providerID.
Json(role, hasTokens, input, modelProvider, providerID) ==
  [parses |-> TRUE, role |-> role, hasTokens |-> hasTokens, input |-> input,
   modelProvider |-> modelProvider, providerID |-> providerID]

InvalidJson == [parses |-> FALSE, role |-> Null, hasTokens |-> FALSE, input |-> 0,
                modelProvider |-> Null, providerID |-> Null]

DataValues ==
  { Json("assistant", TRUE, 100, Null, "OpenAI"),
    Json("assistant", FALSE, 0, "anthropic", Null),
    Json("user", TRUE, 100, "openai", Null),
    Json(Null, TRUE, 10, Null, Null),
    InvalidJson }

\* providerFilter values a caller passes; Null is "no filter"
Filters == {Null, "openai"}

\* providerFilter values a caller may pass that does not lower-case them
FiltersAnyCase == Filters \cup {"OpenAI"}

HoursBackValues == {0, DefaultHoursBack}

\* Date.now() at a call of loadRecentMessages: no row is from the future
NowValues == {MaxTime}

\* String.prototype.toLowerCase on the provider ids of the model
toLowerCase(s) ==
  CASE s = "OpenAI" -> "openai"
    [] s = "Anthropic" -> "anthropic"
    [] OTHER -> s

\* ----------------------------------------------------------------- state
VARIABLES
  store,           \* the message table, in rowid order
  dbOpenable,      \* whether openDb / the query succeeds
  providerFilter,  \* the watch session's provider filter
  cursor,          \* the watch session's CursorState
  timesReturned,   \* per row id, how often incremental loads returned it to the session
  last,            \* outcome of the most recent load call; none once the store changed
  merger,          \* the aggregate merger: records, cuts, aggregate
  loop,            \* the dashboard's render loop and its history
  call             \* the most recent call of a loader or renderer function

loaderVars == <<store, dbOpenable, providerFilter, cursor, timesReturned, last>>

vars == <<loaderVars, merger, loop, call>>

\* what is not the loader's
outsideLoader == <<merger, loop, call>>

\* what is not the merger's
outsideMerger == <<loaderVars, loop, call>>

\* what is not the coordinator's
outsideCoordinator == <<loaderVars, merger, call>>

\* what is not a function call's
outsideCall == <<loaderVars, merger, loop>>

\* the merger's input: the records of a session, in arrival order
records == merger.records
\* ends of the batches merged so far (indices into records)
cuts == merger.cuts
\* the running per-day aggregate
aggregate == merger.aggregate

\* seconds since the render loop was started
clock == loop.clock
\* whether the timer callback of this second has fired
ticked == loop.ticked
\* per source, Date.now() of the callback that last reloaded it
sourceAges == loop.sourceAges
\* per quota source, the data the dashboard shows
snapshots == loop.snapshots
\* callbacks suspended in a fetch that will return
inFlight == loop.inFlight
\* start of the oldest fetch that is never answered, 0 if none
unanswered == loop.unanswered
\* per source, the reloads the loop has completed
refreshes == loop.refreshes
\* per source, the start times of its last two reloads in the loop
attempts == loop.attempts
\* the last reload of a quota source: its result and what it replaced
outcome == loop.outcome
\* per quota source, whether a load of it has ever succeeded
succeeded == loop.succeeded
\* the callback that ended last: its reloads and its repaints
lastTick == loop.lastTick

MessageRow(id, t, d) ==
  [id |-> id, session_id |-> "ses-1", time_created |-> t, data |-> d]

createCursor == [lastTimestamp |-> 0]

NothingReturned == [id \in 1..MaxRows |-> 0]

\* the empty aggregate: a Map without day entries
EmptyAggregate == <<>>

\* the merger before its session has any record
MergerIdle ==
  merger = [records |-> <<>>, cuts |-> <<>>, aggregate |-> EmptyAggregate]

\* the coordinator before its loop is entered
CoordinatorIdle == loop = <<>>

\* no function has been called
NoCall == [fn |-> "none"]
CallIdle == call = NoCall

NoResult ==
  [kind |-> "none", raised |-> FALSE, ok |-> FALSE, inCursor |-> createCursor,
   read |-> {}, messages |-> <<>>, cursor |-> createCursor, chained |-> FALSE]

\* ------------------------------------------------------------ the loader
\* rowToMessage: id and sessionID from the columns, the rest from the data
rowToMessage(row) ==
  [id |-> row.id, sessionID |-> row.session_id, role |-> row.data.role,
   hasTokens |-> row.data.hasTokens, input |-> row.data.input,
   modelProvider |-> row.data.modelProvider, providerID |-> row.data.providerID]

\* JSON.parse(row.data) throws
rowThrows(row) == ~row.data.parses

\* msg.model?.providerID ?? msg.providerID ?? "unknown"
providerIdOf(msg) ==
  IF msg.modelProvider # Null THEN msg.modelProvider
  ELSE IF msg.providerID # Null THEN msg.providerID
  ELSE DefaultProvider

\* variant: the token-breakdown test is missing
isValidMessageWithoutTokenTest(msg, filter) ==
  IF msg.role = "user" THEN FALSE
  ELSE IF filter # Null /\ toLowerCase(providerIdOf(msg)) # filter THEN FALSE
  ELSE TRUE

isValidMessage(msg, filter) ==
  IF msg.role = "user" THEN FALSE
  ELSE IF ~msg.hasTokens THEN FALSE
  ELSE IF filter # Null /\ toLowerCase(providerIdOf(msg)) # filter THEN FALSE
  ELSE TRUE

\* SELECT ... FROM message
QueryAll(db) == db

\* SELECT ... FROM message WHERE time_created >= ?
QuerySince(db, t) ==
  LET Since(row) == row.time_created >= t IN SelectSeq(db, Since)

\* variant: the incremental query compares with >= instead of >
QueryAtOrAfter(db, t) ==
  LET AtOrAfter(row) == row.time_created >= t IN SelectSeq(db, AtOrAfter)

\* SELECT ... FROM message WHERE time_created > ?
QueryAfter(db, t) ==
  LET After(row) == row.time_created > t IN SelectSeq(db, After)

\* rows.map(rowToMessage)
MapRows(rows) == [i \in 1..Len(rows) |-> rowToMessage(rows[i])]

\* variant: the provider filter is not handed to isValidMessage
FilterValidAnyProvider(rows, filter) ==
  LET Keep(msg) == isValidMessage(msg, Null) IN SelectSeq(MapRows(rows), Keep)

\* rows.map(rowToMessage).filter((msg) => isValidMessage(msg, providerFilter))
FilterValid(rows, filter) ==
  LET Keep(msg) == isValidMessage(msg, filter) IN SelectSeq(MapRows(rows), Keep)

\* the try block is left by an exception: openDb or the query fails, or
\* JSON.parse fails on one of the rows read
ReadThrows(openable, rows) ==
  ~openable \/ \E i \in 1..Len(rows) : rowThrows(rows[i])

loadMessages(db, openable, filter) ==
  IF ReadThrows(openable, QueryAll(db)) THEN <<>>
  ELSE FilterValid(QueryAll(db), filter)

cutoffTime(now, hoursBack) == now - hoursBack * MsPerHour

loadRecentMessages(db, openable, now, hoursBack, filter) ==
  IF ReadThrows(openable, QuerySince(db, cutoffTime(now, hoursBack))) THEN <<>>
  ELSE FilterValid(QuerySince(db, cutoffTime(now, hoursBack)), filter)

\* variant: maxTimestamp starts at 0 instead of the cursor passed in
InitialMaxZero(c) == 0

\* let maxTimestamp = cursor.lastTimestamp
InitialMax(c) == c.lastTimestamp

\* variant: the loop never raises maxTimestamp
MaxTimestampNeverRaised(rows, maxTimestamp) == maxTimestamp

\* for (const row of rows) if (row.time_created > maxTimestamp) ...
RECURSIVE MaxTimestampFrom(_, _)
MaxTimestampFrom(rows, maxTimestamp) ==
  IF rows = <<>> THEN maxTimestamp
  ELSE MaxTimestampFrom(Tail(rows),
         IF Head(rows).time_created > maxTimestamp
         THEN Head(rows).time_created ELSE maxTimestamp)

\* variant: the catch block hands back a fresh cursor
IncrementalFailureFreshCursor(c) ==
  [messages |-> <<>>, cursor |-> createCursor]

\* the catch block of loadMessagesIncremental
IncrementalFailure(c) ==
  [messages |-> <<>>, cursor |-> [lastTimestamp |-> c.lastTimestamp]]

loadMessagesIncremental(db, openable, c, filter) ==
  LET rows == QueryAfter(db, c.lastTimestamp) IN
  IF ReadThrows(openable, rows) THEN IncrementalFailure(c)
  ELSE [messages |-> FilterValid(rows, filter),
        cursor |-> [lastTimestamp |-> MaxTimestampFrom(rows, InitialMax(c))]]

\* the loader before its session has a store to read
LoaderIdle ==
  /\ store = <<>>
  /\ dbOpenable = TRUE
  /\ providerFilter = Null
  /\ cursor = createCursor
  /\ timesReturned = NothingReturned
  /\ last = NoResult

\* --------------------------------------------------------------- actions
Init ==
  /\ store = <<>>
  /\ dbOpenable \in BOOLEAN
  /\ providerFilter \in Filters
  /\ cursor = createCursor
  /\ timesReturned = NothingReturned
  /\ last = NoResult
  /\ MergerIdle
  /\ CoordinatorIdle
  /\ CallIdle

\* a writer inserts a row (INSERT INTO message ...)
InsertMessage(t, d) ==
  /\ Len(store) < MaxRows
  /\ store' = Append(store, MessageRow(Len(store) + 1, t, d))
  /\ last' = NoResult
  /\ UNCHANGED <<dbOpenable, providerFilter, cursor, timesReturned>>
  /\ UNCHANGED outsideLoader

\* a writer rewrites the data of a row in place; id and time_created stay
UpdateMessage(i, d) ==
  /\ i \in 1..Len(store)
  /\ d # store[i].data
  /\ store' = [store EXCEPT ![i].data = d]
  /\ last' = NoResult
  /\ UNCHANGED <<dbOpenable, providerFilter, cursor, timesReturned>>
  /\ UNCHANGED outsideLoader

\* the ids of the rows a query selected
RowIdsOf(rows) == {rows[i].id : i \in 1..Len(rows)}

\* the database file goes missing or gets locked / becomes readable again
StoreFails ==
  /\ dbOpenable
  /\ dbOpenable' = FALSE
  /\ last' = NoResult
  /\ UNCHANGED <<store, providerFilter, cursor, timesReturned>>
  /\ UNCHANGED outsideLoader

StoreRecovers ==
  /\ ~dbOpenable
  /\ dbOpenable' = TRUE
  /\ last' = NoResult
  /\ UNCHANGED <<store, providerFilter, cursor, timesReturned>>
  /\ UNCHANGED outsideLoader

\* a new watch session: createCursor() and an empty running result
CallCreateCursor(f) ==
  /\ cursor # createCursor \/ timesReturned # NothingReturned \/ f # providerFilter
  /\ cursor' = createCursor
  /\ providerFilter' = f
  /\ timesReturned' = NothingReturned
  /\ last' = NoResult
  /\ UNCHANGED <<store, dbOpenable>>
  /\ UNCHANGED outsideLoader

LoadsMessages ==
  /\ last' = [kind |-> "full", raised |-> FALSE,
              ok |-> ~ReadThrows(dbOpenable, QueryAll(store)),
              inCursor |-> createCursor,
              read |-> RowIdsOf(QueryAll(store)),
              messages |-> loadMessages(store, dbOpenable, providerFilter),
              cursor |-> createCursor, chained |-> FALSE]
  /\ UNCHANGED <<store, dbOpenable, providerFilter, cursor, timesReturned>>

CallLoadMessages ==
  /\ LoadsMessages
  /\ UNCHANGED outsideLoader

LoadsRecentMessages(now, hoursBack) ==
  /\ last' = [kind |-> "recent", raised |-> FALSE,
              ok |-> ~ReadThrows(dbOpenable,
                                 QuerySince(store, cutoffTime(now, hoursBack))),
              inCursor |-> createCursor,
              read |-> RowIdsOf(QuerySince(store, cutoffTime(now, hoursBack))),
              messages |-> loadRecentMessages(store, dbOpenable, now, hoursBack,
                                              providerFilter),
              cursor |-> createCursor, chained |-> FALSE]
  /\ UNCHANGED <<store, dbOpenable, providerFilter, cursor, timesReturned>>

CallLoadRecentMessages(now, hoursBack) ==
  /\ LoadsRecentMessages(now, hoursBack)
  /\ UNCHANGED outsideLoader

\* loadMessagesIncremental called with the session's cursor and filter
SessionLoad == loadMessagesIncremental(store, dbOpenable, cursor, providerFilter)

\* the ids of the records a load returned
BatchOf(result) == {result.messages[i].id : i \in 1..Len(result.messages)}

\* per row id, one more for every id of the batch
CountIn(counts, batch) ==
  [id \in 1..MaxRows |-> IF id \in batch THEN counts[id] + 1 ELSE counts[id]]

\* the session calls loadMessagesIncremental with its cursor and keeps the
\* returned cursor for the next call
SessionLoads ==
  LET result == SessionLoad
      batch == BatchOf(result) IN
  /\ \A id \in batch : timesReturned[id] <= 1
  /\ last' = [kind |-> "inc", raised |-> FALSE,
              ok |-> ~ReadThrows(dbOpenable, QueryAfter(store, cursor.lastTimestamp)),
              inCursor |-> cursor,
              read |-> RowIdsOf(QueryAfter(store, cursor.lastTimestamp)),
              messages |-> result.messages,
              cursor |-> result.cursor, chained |-> last.kind = "inc"]
  /\ cursor' = result.cursor
  /\ timesReturned' = CountIn(timesReturned, batch)
  /\ UNCHANGED <<store, dbOpenable, providerFilter>>

CallLoadMessagesIncremental ==
  /\ SessionLoads
  /\ UNCHANGED outsideLoader

Next ==
  \/ \E t \in Times, d \in DataValues : InsertMessage(t, d)
  \/ \E i \in 1..MaxRows, d \in DataValues : UpdateMessage(i, d)
  \/ StoreFails
  \/ StoreRecovers
  \/ \E f \in Filters : CallCreateCursor(f)
  \/ CallLoadMessages
  \/ \E now \in NowValues, hoursBack \in HoursBackValues : CallLoadRecentMessages(now, hoursBack)
  \/ CallLoadMessagesIncremental

Spec == Init /\ [][Next]_vars

\* ------------------------------------- a session of incremental loads
\* One session threads its cursor through loadMessagesIncremental while a
\* writer inserts rows and rewrites them in place and the database file
\* comes and goes.  The session's history is kept beside it: the valid rows
\* that were waiting when its last load failed, whether the load just made
\* is the first one that succeeded since, and the rows a successful load
\* read and dropped because they carried no tokens.
RetryTimes == {1, 2}

RetryData ==
  { Json("assistant", TRUE, 100, Null, "OpenAI"),
    Json("assistant", FALSE, 0, "anthropic", Null),
    InvalidJson }

NoHistory ==
  [fn |-> "loadMessagesIncremental", failed |-> FALSE, pending |-> {},
   retried |-> FALSE, tokenless |-> {}]

\* rows that parse, pass isValidMessage and were never returned
Waiting ==
  {i \in 1..Len(store) :
     /\ store[i].data.parses
     /\ isValidMessage(rowToMessage(store[i]), providerFilter)
     /\ timesReturned[i] = 0}

\* rows of a query that isValidMessage drops at `if (!msg.tokens)`
Tokenless(rows) ==
  {rows[i].id : i \in {j \in 1..Len(rows) :
     /\ rows[j].data.parses
     /\ rows[j].data.role # "user"
     /\ ~rows[j].data.hasTokens}}

InitRetry ==
  /\ store = <<>>
  /\ dbOpenable = TRUE
  /\ providerFilter = Null
  /\ cursor = createCursor
  /\ timesReturned = NothingReturned
  /\ last = NoResult
  /\ MergerIdle
  /\ CoordinatorIdle
  /\ call = NoHistory

RetriedLoad ==
  LET rows == QueryAfter(store, cursor.lastTimestamp) IN
  /\ SessionLoads
  /\ call' = IF ReadThrows(dbOpenable, rows)
             THEN [call EXCEPT !.failed = TRUE, !.retried = FALSE,
                               !.pending = Waiting]
             ELSE [call EXCEPT !.failed = FALSE, !.retried = call.failed,
                               !.tokenless = @ \cup Tokenless(rows)]
  /\ UNCHANGED <<merger, loop>>

NextRetry ==
  \/ \E t \in RetryTimes, d \in RetryData : InsertMessage(t, d)
  \/ \E i \in 1..MaxRows, d \in RetryData : UpdateMessage(i, d)
  \/ StoreFails
  \/ StoreRecovers
  \/ RetriedLoad

SpecRetry == InitRetry /\ [][NextRetry]_vars

\* ------------------------------------------ the loaders' database handles
\* Each loader opens the database, reads inside `try { ... } finally {
\* db.close() }` and returns.  The state keeps the handles that are open
\* after the last call returned.  While the database is unreadable either
\* openDb raises, and there is no handle, or it returns a handle and the
\* query raises.
MaxHandles == 2

\* variant: the handle is closed on the way to the return statement only
closedOnReturn(opened, threw) == IF opened /\ ~threw THEN 1 ELSE 0

\* finally { db.close() }: runs however the inner try block is left
closedByFinally(opened, threw) == IF opened THEN 1 ELSE 0

NoHandle == [fn |-> "openDb", opened |-> FALSE, threw |-> FALSE, open |-> 0]

InitHandles ==
  /\ store = <<>>
  /\ dbOpenable = TRUE
  /\ providerFilter = Null
  /\ cursor = createCursor
  /\ timesReturned = NothingReturned
  /\ last = NoResult
  /\ MergerIdle
  /\ CoordinatorIdle
  /\ call = NoHandle

\* the handles left open when loader fn, reading rows, has returned; opens
\* tells whether openDb returns a handle while the database is unreadable
HandleUse(fn, rows, opens) ==
  LET opened == dbOpenable \/ opens
      threw == ReadThrows(dbOpenable, rows) IN
  /\ call.open < MaxHandles
  /\ call' = [fn |-> fn, opened |-> opened, threw |-> threw,
              open |-> call.open + (IF opened THEN 1 ELSE 0)
                         - closedByFinally(opened, threw)]
  /\ UNCHANGED <<merger, loop>>

HandleLoadMessages(opens) ==
  /\ LoadsMessages
  /\ HandleUse("loadMessages", QueryAll(store), opens)

HandleLoadRecentMessages(now, hoursBack, opens) ==
  /\ LoadsRecentMessages(now, hoursBack)
  /\ HandleUse("loadRecentMessages",
               QuerySince(store, cutoffTime(now, hoursBack)), opens)

HandleLoadMessagesIncremental(opens) ==
  /\ SessionLoads
  /\ HandleUse("loadMessagesIncremental",
               QueryAfter(store, cursor.lastTimestamp), opens)

NextHandles ==
  \/ \E t \in RetryTimes, d \in RetryData : InsertMessage(t, d)
  \/ StoreFails
  \/ StoreRecovers
  \/ \E opens \in BOOLEAN : HandleLoadMessages(opens)
  \/ \E now \in NowValues, hoursBack \in HoursBackValues, opens \in BOOLEAN :
       HandleLoadRecentMessages(now, hoursBack, opens)
  \/ \E opens \in BOOLEAN : HandleLoadMessagesIncremental(opens)

SpecHandles == InitHandles /\ [][NextHandles]_vars

\* the load paths called with a provider filter in any letter case
InitAnyCase ==
  /\ store = <<>>
  /\ dbOpenable \in BOOLEAN
  /\ providerFilter \in FiltersAnyCase
  /\ cursor = createCursor
  /\ timesReturned = NothingReturned
  /\ last = NoResult
  /\ MergerIdle
  /\ CoordinatorIdle
  /\ CallIdle

NextAnyCase ==
  \/ \E t \in Times, d \in DataValues : InsertMessage(t, d)
  \/ StoreFails
  \/ StoreRecovers
  \/ CallLoadMessages
  \/ \E now \in NowValues, hoursBack \in HoursBackValues : CallLoadRecentMessages(now, hoursBack)
  \/ CallLoadMessagesIncremental

SpecAnyCase == InitAnyCase /\ [][NextAnyCase]_vars

\* ======================================================= the aggregate merger
\* merge(existingAggregate, newRecords): the records of a batch are folded
\* into the running per-day aggregate one by one.
MaxRecords == 2     \* records of a merger session
MaxHalfDays == 2    \* creation times run over 0..MaxHalfDays half days
MaxMerges == 3      \* merge calls of a merger session

MsPerDay == 24 * MsPerHour

\* creation timestamps of the records handed to the merger (ms)
MergeTimes == {h * (MsPerDay \div 2) : h \in 0..MaxHalfDays}

TokenUsage(input, output, reasoning, cacheRead, cacheWrite) ==
  [input |-> input, output |-> output, reasoning |-> reasoning,
   cacheRead |-> cacheRead, cacheWrite |-> cacheWrite]

TokenValues ==
  { TokenUsage(1000, 500, 0, 0, 0),
    TokenUsage(1000000, 0, 7, 3, 2) }

ModelValues ==
  { [modelID |-> "claude-opus-4-5", providerID |-> "anthropic"],
    [modelID |-> "gpt-4o", providerID |-> "openai"] }

\* a valid record as the loader hands it on; timed tells whether it has a
\* time.created
MessageJson(timed, created, model, tokens) ==
  [timed |-> timed, created |-> created, modelID |-> model.modelID,
   providerID |-> model.providerID, tokens |-> tokens]

MessageValues ==
  {MessageJson(TRUE, t, m, k) : t \in MergeTimes, m \in ModelValues, k \in TokenValues}
    \cup {MessageJson(FALSE, 0, m, k) : m \in ModelValues, k \in TokenValues}

\* the records of a session arrive ordered by creation timestamp
OrderedByTimestamp(msgs) ==
  \A i, j \in 1..Len(msgs) :
    (i < j /\ msgs[i].timed /\ msgs[j].timed)
      => msgs[i].created <= msgs[j].created

RecordSequences ==
  {msgs \in UNION {[1..n -> MessageValues] : n \in 0..MaxRecords} :
     OrderedByTimestamp(msgs)}

\* getModelPricing: price per million tokens, in twentieths of a dollar
\* ($5 is 100, $0.30 is 6)
getModelPricing(modelID) ==
  IF modelID = "claude-opus-4-5"
    THEN [input |-> 100, output |-> 500, cacheWrite |-> 125, cacheRead |-> 10]
  ELSE IF modelID = "gpt-4o"
    THEN [input |-> 50, output |-> 200, cacheWrite |-> 0, cacheRead |-> 0]
    ELSE [input |-> 60, output |-> 300, cacheWrite |-> 75, cacheRead |-> 6]

\* variant: reasoning tokens are not charged
calculateCostOfVisibleTokens(tokens, modelID) ==
  LET pricing == getModelPricing(modelID) IN
  tokens.input * pricing.input
    + tokens.output * pricing.output
    + tokens.cacheWrite * pricing.cacheWrite
    + tokens.cacheRead * pricing.cacheRead

\* calculateCost, in twentieths of a millionth of a dollar; reasoning uses
\* the output price
calculateCost(tokens, modelID) ==
  LET pricing == getModelPricing(modelID) IN
  tokens.input * pricing.input
    + (tokens.output + tokens.reasoning) * pricing.output
    + tokens.cacheWrite * pricing.cacheWrite
    + tokens.cacheRead * pricing.cacheRead

\* the calendar day (UTC) of a creation timestamp
dateOf(t) == t \div MsPerDay

ZeroSums ==
  [input |-> 0, output |-> 0, cacheWrite |-> 0, cacheRead |-> 0,
   reasoning |-> 0, cost |-> 0]

\* the sums of an entry with one more record added
AddRecord(sums, msg) ==
  [input |-> sums.input + msg.tokens.input,
   output |-> sums.output + msg.tokens.output,
   cacheWrite |-> sums.cacheWrite + msg.tokens.cacheWrite,
   cacheRead |-> sums.cacheRead + msg.tokens.cacheRead,
   reasoning |-> sums.reasoning + msg.tokens.reasoning,
   cost |-> sums.cost + calculateCost(msg.tokens, msg.modelID)]

\* a day entry created on the first record of its date
EmptyDay(date) ==
  [date |-> date, models |-> {}, providers |-> {}, providerStats |-> <<>>,
   sums |-> ZeroSums]

\* variant: every record counts as dated, one without time.created at 0
hasCreatedAlways(msg) == TRUE

\* whether the record has a creation date (msg.time?.created)
hasCreated(msg) == msg.timed

\* variant: the record is added to the day's sums but not to its provider's
mergeRecordDayOnly(agg, msg) ==
  IF ~msg.timed THEN agg
  ELSE
    LET date == dateOf(msg.created)
        day == IF date \in DOMAIN agg THEN agg[date] ELSE EmptyDay(date)
        p == msg.providerID
        entry == [date |-> date,
                  models |-> day.models \cup {msg.modelID},
                  providers |-> day.providers \cup {p},
                  providerStats |->
                    [q \in DOMAIN day.providerStats \cup {p} |->
                       IF q \in DOMAIN day.providerStats
                         THEN day.providerStats[q] ELSE ZeroSums],
                  sums |-> AddRecord(day.sums, msg)]
    IN [d \in DOMAIN agg \cup {date} |-> IF d = date THEN entry ELSE agg[d]]

\* one record folded in: a record without creation date is passed over;
\* otherwise locate or create the day entry, add the token categories and
\* the cost to the day's sums and to the provider's sums, insert the model
\* id and the provider id
mergeRecord(agg, msg) ==
  IF ~hasCreated(msg) THEN agg
  ELSE
    LET date == dateOf(msg.created)
        day == IF date \in DOMAIN agg THEN agg[date] ELSE EmptyDay(date)
        p == msg.providerID
        provider == IF p \in DOMAIN day.providerStats
                      THEN day.providerStats[p] ELSE ZeroSums
        entry == [date |-> date,
                  models |-> day.models \cup {msg.modelID},
                  providers |-> day.providers \cup {p},
                  providerStats |->
                    [q \in DOMAIN day.providerStats \cup {p} |->
                       IF q = p THEN AddRecord(provider, msg)
                                ELSE day.providerStats[q]],
                  sums |-> AddRecord(day.sums, msg)]
    IN [d \in DOMAIN agg \cup {date} |-> IF d = date THEN entry ELSE agg[d]]

\* the records of a batch folded in, first to last
RECURSIVE foldRecords(_, _)
foldRecords(agg, msgs) ==
  IF msgs = <<>> THEN agg
  ELSE foldRecords(mergeRecord(agg, Head(msgs)), Tail(msgs))

\* variant: the batch is aggregated on its own and its day entries replace
\* those of the running aggregate
mergeReplacingDays(agg, msgs) ==
  LET batch == foldRecords(EmptyAggregate, msgs) IN
  [d \in DOMAIN agg \cup DOMAIN batch |->
     IF d \in DOMAIN batch THEN batch[d] ELSE agg[d]]

\* merge(existingAggregate, newRecords) -> updatedAggregate
merge(agg, msgs) == foldRecords(agg, msgs)

\* records folded into the running aggregate so far
folded == IF cuts = <<>> THEN 0 ELSE cuts[Len(cuts)]

\* a merger session starts with an empty aggregate
InitMerger ==
  /\ merger \in {[records |-> msgs, cuts |-> <<>>, aggregate |-> EmptyAggregate] :
                   msgs \in RecordSequences}
  /\ LoaderIdle
  /\ CoordinatorIdle
  /\ CallIdle

\* the next batch, records folded+1..upTo, is merged into the aggregate
MergeBatch(upTo) ==
  /\ Len(cuts) < MaxMerges
  /\ upTo \in folded..Len(records)
  /\ merger' = [merger EXCEPT
                  !.aggregate = merge(aggregate, SubSeq(records, folded + 1, upTo)),
                  !.cuts = Append(cuts, upTo)]
  /\ UNCHANGED outsideMerger

NextMerger == \E upTo \in 0..MaxRecords : MergeBatch(upTo)

SpecMerger == InitMerger /\ [][NextMerger]_vars

\* --------------------------------------------------------- calculateCost
\* calculateCost(tokens, modelID) called on its own, and the cost that one
\* record of that breakdown adds to the day it is folded into.
MaxHalfMillions == 2

HalfMillion == 500000

Million == 1000000

\* a dollar in the cost unit of the model
Dollar == 20 * Million

TokenCounts == {h * HalfMillion : h \in 0..MaxHalfMillions}

PricedModels == {"claude-opus-4-5", "gpt-4o", "unknown-model"}

InitCost ==
  /\ call = NoCall
  /\ LoaderIdle
  /\ MergerIdle
  /\ CoordinatorIdle

CallCalculateCost(tokens, modelID) ==
  LET msg == MessageJson(TRUE, 0, [modelID |-> modelID, providerID |-> "provider"], tokens)
      day == merge(EmptyAggregate, <<msg>>)[dateOf(0)] IN
  /\ CallIdle
  /\ call' = [fn |-> "calculateCost", tokens |-> tokens, modelID |-> modelID,
              cost |-> calculateCost(tokens, modelID),
              dayCost |-> day.sums.cost]
  /\ UNCHANGED outsideCall

NextCost ==
  \E i, o, r, cr, cw \in TokenCounts, modelID \in PricedModels :
    CallCalculateCost(TokenUsage(i, o, r, cr, cw), modelID)

SpecCost == InitCost /\ [][NextCost]_vars

\* ----------------------------------------- renderUsageTable (unnamed/part_003)
MaxWidth == 150
MaxDays == 1

MediumWidth == 105
WideWidth == 140

\* the width argument: left out, or a number of columns
NoWidth == [given |-> FALSE, columns |-> 0]
Width(n) == [given |-> TRUE, columns |-> n]
Widths == {NoWidth} \cup {Width(n) : n \in 0..MaxWidth}

\* if (width < 105) narrow; if (width < 140) medium; wide
getTableWidthTier(n) ==
  IF n < MediumWidth THEN "narrow"
  ELSE IF n < WideWidth THEN "medium"
  ELSE "wide"

\* the truth value JavaScript gives a width: undefined and 0 are false
Truthy(width) == width.given /\ width.columns # 0

\* const tier = width ? getTableWidthTier(width) : "wide"
tierOf(width) ==
  IF Truthy(width) THEN getTableWidthTier(width.columns) ELSE "wide"

\* the columns of the header, the rows and the totals row, left to right
columnsOf(tier) ==
  <<"Date">>
  \o (IF tier = "wide" THEN <<"Models">> ELSE <<>>)
  \o (IF tier # "narrow" THEN <<"Tokens">> ELSE <<>>)
  \o <<"Cost">>

\* variant: a map without days is rendered as a table of its totals row
renderEmptyAsTable(days, width) ==
  [text |-> "table", columns |-> columnsOf(tierOf(width)), rows |-> days + 1]

\* renderUsageTable(dailyStats, width), of a dailyStats map with days entries
renderUsageTable(days, width) ==
  IF days = 0 THEN [text |-> "No usage data", columns |-> <<>>, rows |-> 0]
  ELSE [text |-> "table", columns |-> columnsOf(tierOf(width)),
        rows |-> days + 1]

InitTable ==
  /\ LoaderIdle
  /\ MergerIdle
  /\ CoordinatorIdle
  /\ CallIdle

CallRenderUsageTable(days, width) ==
  /\ call' = [fn |-> "renderUsageTable", days |-> days, width |-> width,
              result |-> renderUsageTable(days, width)]
  /\ UNCHANGED outsideCall

NextTable ==
  \E days \in 0..MaxDays, width \in Widths : CallRenderUsageTable(days, width)

SpecTable == InitTable /\ [][NextTable]_vars

\* ------------------------------ renderUsageTable: the rows and the totals
\* The dailyStats map is a sequence of day entries in insertion order, its
\* keys the dates, numbered by calendar day (ISO date strings compare as
\* their days do).  Costs are counted in thousandths of a dollar, the
\* printed cost in cents.
MaxDates == 2

Dates == 1..MaxDates

DayValue(input, output, cacheRead, cacheWrite, reasoning, cost, models) ==
  [input |-> input, output |-> output, cacheRead |-> cacheRead,
   cacheWrite |-> cacheWrite, reasoning |-> reasoning, cost |-> cost,
   models |-> models, providers |-> {"anthropic"}]

DayValues ==
  { DayValue(100, 50, 0, 0, 7, 4, {}),
    DayValue(1000, 500, 3, 2, 7, 10000, {"claude-opus-4-5"}),
    DayValue(2000000, 1000, 0, 0, 0, 20000, {"claude-opus-4-5", "gpt-4o"}) }

DayEntry(date, value) == [date |-> date, stats |-> value]

\* the maps a caller passes: no date is a key twice
DailyStatsMaps ==
  {m \in UNION {[1..n -> {DayEntry(d, x) : d \in Dates, x \in DayValues}] : n \in 0..MaxDates} :
     \A i, j \in 1..Len(m) : i # j => m[i].date # m[j].date}

\* the widths the rows are rendered at: one per tier, none, and 0
RowWidths ==
  {NoWidth, Width(0), Width(MediumWidth - 1), Width(MediumWidth), Width(WideWidth)}

\* Array.from(dailyStats.keys())
keysOf(dailyStats) == [i \in 1..Len(dailyStats) |-> dailyStats[i].date]

\* variant: the keys are left in insertion order
sortedDatesUnsorted(dailyStats) == keysOf(dailyStats)

\* Array.from(dailyStats.keys()).sort((a, b) => a.localeCompare(b))
sortedDates(dailyStats) == SortSeq(keysOf(dailyStats), LAMBDA a, b : a < b)

\* dailyStats.get(date)
getStats(dailyStats, date) ==
  dailyStats[CHOOSE i \in 1..Len(dailyStats) : dailyStats[i].date = date].stats

\* formatNumber: one decimal of millions or of thousands, else the number
\* (toFixed rounds to the nearest tenth)
formatNumber(num) ==
  IF num >= 1000000 THEN [tenths |-> (num + 50000) \div 100000, unit |-> "M"]
  ELSE IF num >= 1000 THEN [tenths |-> (num + 50) \div 100, unit |-> "K"]
  ELSE [tenths |-> 10 * num, unit |-> ""]

\* formatCost: `$${cost.toFixed(2)}`, the cost rounded to the nearest cent
formatCost(cost) == (cost + 5) \div 10

\* a cell of a column the tier leaves out
NotShown == [tenths |-> 0, unit |-> "none"]

\* stats.input + stats.cacheRead + stats.cacheWrite
combinedInput(stats) == stats.input + stats.cacheRead + stats.cacheWrite

\* one day row: date, first model, token figure, cost
dayRow(date, stats, tier) ==
  [date |-> date,
   tokens |-> IF tier # "narrow"
                THEN formatNumber(combinedInput(stats) + stats.output)
                ELSE NotShown,
   cost |-> formatCost(stats.cost)]

\* totalInput, totalOutput and totalCost after the loop over sortedDates
RECURSIVE totalsOver(_, _)
totalsOver(dailyStats, dates) ==
  IF dates = <<>> THEN [input |-> 0, output |-> 0, cost |-> 0]
  ELSE LET stats == getStats(dailyStats, Head(dates))
           rest == totalsOver(dailyStats, Tail(dates)) IN
       [input |-> rest.input + combinedInput(stats),
        output |-> rest.output + stats.output,
        cost |-> rest.cost + stats.cost]

\* the Total row: the token figure of grandTotal, the cost of totalCost
totalRow(dailyStats, dates, tier) ==
  LET totals == totalsOver(dailyStats, dates) IN
  [tokens |-> IF tier # "narrow"
                THEN formatNumber(totals.input + totals.output)
                ELSE NotShown,
   cost |-> formatCost(totals.cost)]

\* variant: the running totals are kept in the first day's entry
dailyStatsWithTotals(dailyStats) ==
  IF dailyStats = <<>> THEN dailyStats
  ELSE [dailyStats EXCEPT ![1].stats.cost =
          totalsOver(dailyStats, keysOf(dailyStats)).cost]

\* the map after the call: the renderer reads it and writes nothing to it
\* (the key array and the model array it sorts are copies)
dailyStatsAfter(dailyStats) == dailyStats

\* renderUsageTable(dailyStats, width): the rows under the header, the Total
\* row, and the map as the call leaves it
renderUsageTableRows(dailyStats, width) ==
  LET dates == sortedDates(dailyStats)
      tier == tierOf(width) IN
  IF Len(dates) = 0
    THEN [text |-> "No usage data", columns |-> <<>>, rows |-> <<>>,
          total |-> [tokens |-> NotShown, cost |-> 0],
          dailyStats |-> dailyStatsAfter(dailyStats)]
    ELSE [text |-> "table", columns |-> columnsOf(tier),
          rows |-> [i \in 1..Len(dates) |->
                      dayRow(dates[i], getStats(dailyStats, dates[i]), tier)],
          total |-> totalRow(dailyStats, dates, tier),
          dailyStats |-> dailyStatsAfter(dailyStats)]

CallRenderUsageTableRows(dailyStats, width) ==
  /\ CallIdle
  /\ call' = [fn |-> "renderUsageTableRows", dailyStats |-> dailyStats,
              width |-> width,
              result |-> renderUsageTableRows(dailyStats, width)]
  /\ UNCHANGED outsideCall

NextTableRows ==
  \E dailyStats \in DailyStatsMaps, width \in RowWidths :
    CallRenderUsageTableRows(dailyStats, width)

SpecTableRows == InitTable /\ [][NextTableRows]_vars

\* ------------------------------------- config commands (unnamed/part_007)
\* setCodexToken stores a token in the configuration, showConfig prints the
\* configuration with the token masked.  A token is the sequence of its
\* characters, each written as its position in the token.  Beside the stored
\* token the state keeps the token showConfig last read and what it printed.
MaxTokenLen == 13

MaskHead == 8
MaskTail == 4

Token(n) == [i \in 1..n |-> i]

CodexTokens == {Token(n) : n \in 0..MaxTokenLen}

\* config.codexToken: undefined, or the string stored
NoToken == [stored |-> FALSE, chars |-> <<>>]
Stored(token) == [stored |-> TRUE, chars |-> token]

\* String.prototype.substring(start, end): both clamped to 0..length
substring(str, start, end) ==
  LET clamp(k) == IF k < 0 THEN 0 ELSE IF k > Len(str) THEN Len(str) ELSE k
  IN SubSeq(str, clamp(start) + 1, clamp(end))

\* what showConfig prints for the token
NotSetLine == [masked |-> FALSE, head |-> <<>>, tail |-> <<>>]

\* substring(0, 8) + "..." + substring(length - 4)
maskedToken(codexToken) ==
  [masked |-> TRUE,
   head |-> substring(codexToken, 0, MaskHead),
   tail |-> substring(codexToken, Len(codexToken) - MaskTail, Len(codexToken))]

\* the configuration file has no token, nothing was printed
InitConfig ==
  /\ call = [fn |-> "config", codexToken |-> NoToken, shown |-> NoToken,
             printed |-> NotSetLine]
  /\ LoaderIdle
  /\ MergerIdle
  /\ CoordinatorIdle

\* setCodexToken(token): config.codexToken = token; saveConfig
SetCodexToken(token) ==
  /\ call' = [call EXCEPT !.codexToken = Stored(token)]
  /\ UNCHANGED outsideCall

\* showConfig: `if (config.codexToken)` is false for no token and for ""
ShowConfig ==
  /\ call' = [call EXCEPT
                !.shown = call.codexToken,
                !.printed =
                  IF call.codexToken.stored /\ call.codexToken.chars # <<>>
                    THEN maskedToken(call.codexToken.chars)
                    ELSE NotSetLine]
  /\ UNCHANGED outsideCall

NextConfig ==
  \/ \E token \in CodexTokens : SetCodexToken(token)
  \/ ShowConfig

SpecConfig == InitConfig /\ [][NextConfig]_vars

\* ===================================================== the refresh coordinator
\* The dashboard's single render loop (plan 6d): an initial load of every
\* source, then a timer callback every second that reloads the sources whose
\* interval has elapsed and repaints if one of them was reloaded.  Time is
\* counted in seconds.  The local loaders finish within the second of their
\* tick; the remote fetch of loadCodexUsage may take any time, and the timer
\* fires again while a callback is suspended in it.
MaxElapsed == 22    \* seconds the loop is run with fetches of any duration
MaxRun == 66        \* seconds the loop is run with prompt fetches
MaxInFlight == 2    \* callbacks suspended in an answered fetch at a time

Sources == {"multiAccount", "antigravity", "codex", "opencode"}
QuotaSources == {"multiAccount", "antigravity", "codex"}

intervals ==
  [multiAccount |-> 10, antigravity |-> 60, codex |-> 60, opencode |-> 300]

TickPeriod == 1

\* Date.now() when the loop starts: later than every interval after the epoch
LoopStart == intervals.opencode

\* Date.now()
Now == LoopStart + clock

\* a source's panel data: null ("not configured"), loaded data, or an error
\* snapshot
Absent == "absent"
Data == "data"
ErrorSnapshot == "error"

\* what a loader returns: the file loaders null on failure, loadCodexQuota
\* an error snapshot
LoadResult(s, ok) ==
  IF ok THEN Data
  ELSE IF s = "codex" THEN ErrorSnapshot ELSE Absent

NoAttempt == [last |-> 0, prev |-> 0]
NoOutcome == [source |-> "none", result |-> "none", before |-> Absent]
NoTick == [attempted |-> {}, repaints |-> 0]

\* the loop's variables and the history of a callback, as one value
Context(flag, seen) ==
  [ages |-> sourceAges, snaps |-> snapshots, refreshes |-> refreshes,
   attempts |-> attempts, outcome |-> outcome, succeeded |-> succeeded,
   needsRender |-> flag, attempted |-> seen]

\* now - sourceAges.X >= intervals.X
Due(ages, s, now) == now - ages[s] >= intervals[s]

\* the start of a reload is noted
Attempt(st, s, time) ==
  [st EXCEPT !.attempts[s] = [last |-> time, prev |-> @.last],
             !.attempted = @ \cup {s}]

\* X = await loadX(); sourceAges.X = now; needsRender = true
Assign(st, s, now, ok) ==
  [st EXCEPT !.snaps[s] = LoadResult(s, ok),
             !.ages[s] = now,
             !.needsRender = TRUE,
             !.refreshes[s] = @ + 1,
             !.succeeded[s] = @ \/ ok,
             !.outcome = [source |-> s,
                          result |-> IF ok THEN "ok" ELSE "failed",
                          before |-> st.snaps[s]]]

\* variant: a file source is reloaded by every callback
CheckSourceAlways(st, s, now, ok, time) == Assign(Attempt(st, s, time), s, now, ok)

\* if (now - sourceAges.X >= intervals.X): reload of a file source
CheckSource(st, s, now, ok, time) ==
  IF Due(st.ages, s, now) THEN Assign(Attempt(st, s, time), s, now, ok)
  ELSE st

\* the record log: loadMessagesIncremental, merge, sourceAges.opencode = now
CheckRecordLog(st, now, time) ==
  IF Due(st.ages, "opencode", now)
    THEN [Attempt(st, "opencode", time) EXCEPT
            !.ages["opencode"] = now,
            !.needsRender = TRUE,
            !.refreshes["opencode"] = @ + 1]
    ELSE st

\* variant: the callback repaints whether or not a source was reloaded
RenderAlways(st) == 1

\* if (needsRender): homeThenClearBelow(); renderDashboard(...)
Render(st) == IF st.needsRender THEN 1 ELSE 0

\* the loop's variables with the values the callback computed
Commit(st) ==
  [loop EXCEPT !.sourceAges = st.ages, !.snapshots = st.snaps,
               !.refreshes = st.refreshes, !.attempts = st.attempts,
               !.outcome = st.outcome, !.succeeded = st.succeeded]

\* the end of a callback: the record-log check and the repaint
Finish(st, now) ==
  LET end == CheckRecordLog(st, now, Now) IN
  [Commit(end) EXCEPT
     !.lastTick = [attempted |-> end.attempted, repaints |-> Render(end)]]

\* the loop once it is entered
LoopEntered(loaded) ==
  [clock |-> 0,
   ticked |-> TRUE,
   sourceAges |-> [s \in Sources |-> 0],
   succeeded |-> loaded,
   snapshots |-> [s \in QuotaSources |-> LoadResult(s, loaded[s])],
   inFlight |-> <<>>,
   unanswered |-> 0,
   refreshes |-> [s \in Sources |-> 0],
   attempts |-> [s \in Sources |-> NoAttempt],
   outcome |-> NoOutcome,
   lastTick |-> NoTick]

\* the loop is entered after the initial load of every source:
\* sourceAges = { multiAccount: 0, antigravity: 0, codex: 0, opencode: 0 }
InitCoordinator ==
  /\ loop \in {LoopEntered(loaded) : loaded \in [QuotaSources -> BOOLEAN]}
  /\ LoaderIdle
  /\ MergerIdle
  /\ CallIdle

\* a second has passed since the timer last fired
TimePasses(limit) ==
  /\ ticked
  /\ clock < limit
  /\ loop' = [loop EXCEPT !.clock = @ + TickPeriod, !.ticked = FALSE]
  /\ UNCHANGED outsideCoordinator

\* the setInterval callback: the file sources are checked and reloaded, then
\* codex; a due codex suspends the callback in its fetch, which the endpoint
\* will answer or never answers (an endpoint that has gone silent stays so)
TimerFires(okMultiAccount, okAntigravity, answered) ==
  LET now == Now
      st1 == CheckSource(Context(FALSE, {}), "multiAccount", now, okMultiAccount, now)
      st2 == CheckSource(st1, "antigravity", now, okAntigravity, now)
      suspended == [now |-> now, needsRender |-> st2.needsRender,
                    attempted |-> st2.attempted \cup {"codex"}]
      fetching == Commit(Attempt(st2, "codex", now))
      after ==
        IF ~Due(st2.ages, "codex", now) THEN Finish(st2, now)
        ELSE IF answered THEN [fetching EXCEPT !.inFlight = Append(@, suspended)]
        ELSE [fetching EXCEPT !.unanswered = IF @ = 0 THEN now ELSE @]
  IN
  /\ ~ticked
  /\ (Due(st2.ages, "codex", now) /\ answered)
       => (unanswered = 0 /\ Len(inFlight) < MaxInFlight)
  /\ loop' = [after EXCEPT !.ticked = TRUE]
  /\ UNCHANGED outsideCoordinator

\* the fetch of a suspended callback is answered or fails; the callback goes
\* on: codex = ...; sourceAges.codex = now; the record log; the repaint
FetchReturns(i, ok) ==
  /\ i \in 1..Len(inFlight)
  /\ LET tick == inFlight[i]
         st == Assign(Context(tick.needsRender, tick.attempted), "codex",
                      tick.now, ok)
         others == [j \in 1..(Len(inFlight) - 1) |->
                      IF j < i THEN inFlight[j] ELSE inFlight[j + 1]]
     IN loop' = [Finish(st, tick.now) EXCEPT !.inFlight = others]
  /\ UNCHANGED outsideCoordinator

NextCoordinator ==
  \/ TimePasses(MaxElapsed)
  \/ \E okMultiAccount, okAntigravity, answered \in BOOLEAN :
       TimerFires(okMultiAccount, okAntigravity, answered)
  \/ \E i \in 1..MaxInFlight, ok \in BOOLEAN : FetchReturns(i, ok)

SpecCoordinator == InitCoordinator /\ [][NextCoordinator]_vars

\* the loop with an endpoint that answers every fetch within the second in
\* which it was sent: no callback is still suspended when the timer fires
PromptSecond ==
  /\ inFlight = <<>>
  /\ TimePasses(MaxRun)

NextPrompt ==
  \/ PromptSecond
  \/ \E okMultiAccount, okAntigravity \in BOOLEAN :
       TimerFires(okMultiAccount, okAntigravity, TRUE)
  \/ \E ok \in BOOLEAN : FetchReturns(1, ok)

SpecPrompt == InitCoordinator /\ [][NextPrompt]_vars

\* ------------------------------------------- a watch session of the dashboard
\* The loop of plan 6d over the record store of loader.ts: the full initial
\* load and render, then the timer callbacks, while a writer appends rows.
MaxWatch == 3

\* what the writer appends during the session
WatchData == {Json("assistant", TRUE, 100, Null, "OpenAI"), InvalidJson}

\* the creation times of the rows appended during the session
WatchTimes == {1, 2}

\* the stats of the session: per row id, how often the record was folded in
NothingFolded == [id \in 1..MaxRows |-> 0]

\* variant: only the first record of a batch is folded into stats
mergeFirstOnly(stats, batch) ==
  CountIn(stats, {id \in batch : \A other \in batch : id <= other})

\* Merge newStats into stats (add to existing DailyStats)
mergeIntoStats(stats, batch) == CountIn(stats, batch)

\* the days of the aggregate handed to renderUsageTable
daysOf(stats) == IF \E id \in 1..MaxRows : stats[id] > 0 THEN 1 ELSE 0

\* what a repaint puts on the screen, with the batches the loader had
\* returned and the cursor the session held when it was painted
Painted(stats, returned, watchState, snaps) ==
  [stats |-> stats, returned |-> returned, watchState |-> watchState,
   snapshots |-> snaps,
   text |-> renderUsageTable(daysOf(stats), NoWidth).text]

\* variant: the refresh loads from a fresh cursor
refreshFromStart == loadMessagesIncremental(store, dbOpenable, createCursor, providerFilter)

\* const result = await loadMessagesIncremental(storagePath, provider, watchState)
refreshLoad == SessionLoad

\* the end of a callback of the session: the record-log check with its load
\* and merge, and the repaint
WatchFinish(st, now) ==
  LET end == CheckRecordLog(st, now, Now)
      due == Due(st.ages, "opencode", now)
      batch == IF due THEN BatchOf(refreshLoad) ELSE {}
      merged == mergeIntoStats(loop.stats, batch)
  IN
  [Finish(st, now) EXCEPT
     !.stats = merged,
     !.shown = IF Render(end) = 1
                 THEN Painted(merged, CountIn(timesReturned, batch),
                              IF due THEN refreshLoad.cursor ELSE cursor,
                              end.snaps)
                 ELSE @]

\* what the end of a callback leaves in the session of the loader:
\* watchState = result.watchState
SessionAfter(st, now) ==
  /\ IF Due(st.ages, "opencode", now)
       THEN /\ cursor' = refreshLoad.cursor
            /\ timesReturned' = CountIn(timesReturned, BatchOf(refreshLoad))
       ELSE UNCHANGED <<cursor, timesReturned>>
  /\ UNCHANGED <<store, dbOpenable, providerFilter, last>>

\* the initial load of the record log: whether the store could be read,
\* whether the load raised, the batch it returned, the initial render
FirstLoad(ok, raised, batch, text) ==
  [ok |-> ok, raised |-> raised, batch |-> batch, text |-> text]
NoFirstLoad == FirstLoad(TRUE, FALSE, {}, "No usage data")

\* the loop with the stats of the session and what it has painted
WatchLoop ==
  LoopEntered([s \in QuotaSources |-> TRUE])
    @@ [entered |-> FALSE,
        first |-> NoFirstLoad,
        stats |-> NothingFolded,
        shown |-> Painted(NothingFolded, NothingReturned, createCursor,
                          [s \in QuotaSources |-> Data])]

InitWatch ==
  /\ store = <<>>
  /\ dbOpenable \in BOOLEAN
  /\ providerFilter = Null
  /\ cursor = createCursor
  /\ timesReturned = NothingReturned
  /\ last = NoResult
  /\ MergerIdle
  /\ CallIdle
  /\ loop = WatchLoop

\* const { messages, watchState } = await loadMessagesIncremental(storagePath, provider)
initialLoad == loadMessagesIncremental(store, dbOpenable, createCursor, providerFilter)

\* the full initial load, let stats = aggregateByDate(messages), the initial
\* render, and the loop is entered
InitialLoad ==
  LET result == initialLoad
      batch == BatchOf(result)
      stats == mergeIntoStats(NothingFolded, batch)
      painted == Painted(stats, CountIn(NothingReturned, batch), result.cursor,
                         loop.snapshots)
  IN
  /\ ~loop.entered
  /\ loop' = [loop EXCEPT
                !.entered = TRUE,
                !.first = FirstLoad(dbOpenable, FALSE, batch, painted.text),
                !.stats = stats,
                !.shown = painted]
  /\ cursor' = result.cursor
  /\ timesReturned' = CountIn(NothingReturned, batch)
  /\ UNCHANGED <<store, dbOpenable, providerFilter, last>>
  /\ UNCHANGED <<merger, call>>

\* a second of the session passes
WatchSecond ==
  /\ loop.entered
  /\ TimePasses(MaxWatch)

\* the timer callback of the session
WatchTimerFires(okMultiAccount) ==
  LET now == Now
      st1 == CheckSource(Context(FALSE, {}), "multiAccount", now, okMultiAccount, now)
      st2 == CheckSource(st1, "antigravity", now, TRUE, now)
      suspended == [now |-> now, needsRender |-> st2.needsRender,
                    attempted |-> st2.attempted \cup {"codex"}]
      fetching == Commit(Attempt(st2, "codex", now))
  IN
  /\ ~ticked
  /\ IF Due(st2.ages, "codex", now)
       THEN /\ Len(inFlight) < MaxInFlight
            /\ loop' = [fetching EXCEPT !.inFlight = Append(@, suspended),
                                         !.ticked = TRUE]
            /\ UNCHANGED loaderVars
       ELSE /\ loop' = [WatchFinish(st2, now) EXCEPT !.ticked = TRUE]
            /\ SessionAfter(st2, now)
  /\ UNCHANGED <<merger, call>>

\* the fetch of a suspended callback of the session returns
WatchFetchReturns(i, ok) ==
  /\ i \in 1..Len(inFlight)
  /\ LET tick == inFlight[i]
         st == Assign(Context(tick.needsRender, tick.attempted), "codex",
                      tick.now, ok)
         others == [j \in 1..(Len(inFlight) - 1) |->
                      IF j < i THEN inFlight[j] ELSE inFlight[j + 1]]
     IN /\ loop' = [WatchFinish(st, tick.now) EXCEPT !.inFlight = others]
        /\ SessionAfter(st, tick.now)
  /\ UNCHANGED <<merger, call>>

NextWatch ==
  \/ \E t \in WatchTimes, d \in WatchData : InsertMessage(t, d)
  \/ StoreFails
  \/ StoreRecovers
  \/ InitialLoad
  \/ WatchSecond
  \/ \E okMultiAccount \in BOOLEAN : WatchTimerFires(okMultiAccount)
  \/ \E i \in 1..MaxInFlight, ok \in BOOLEAN : WatchFetchReturns(i, ok)

SpecWatch == InitWatch /\ [][NextWatch]_vars

\* ------------------------------------------- loadCodexQuota (unnamed/part_002)
MaxResetAt == 1

\* used_percent is 0-100; used is used_percent / 100
PercentFull == 100
MsPerSecond == 1000

\* a number as the quotient num / den
Fraction(n, d) == [num |-> n, den |-> d]

\* the --codex-token option: not given, given empty, given
Tokens == {Null, "", "token"}

UsedPercents == {0, 50, PercentFull}
\* reset_at, Unix seconds
ResetTimes == 0..MaxResetAt

\* a window of CodexUsageResponse, or its absence
NoWindow == [present |-> FALSE, used_percent |-> 0, reset_at |-> 0]
Window(p, r) == [present |-> TRUE, used_percent |-> p, reset_at |-> r]
WindowValues == {NoWindow} \cup {Window(p, r) : p \in UsedPercents, r \in ResetTimes}

\* what fetch and response.json() give: a rejected fetch, a status, a body
\* that is not JSON, the JSON null, a CodexUsageResponse
Response(kind, status, primary, secondary, review) ==
  [kind |-> kind, status |-> status, primary |-> primary,
   secondary |-> secondary, review |-> review]
Responses ==
  {Response(k, 200, NoWindow, NoWindow, NoWindow) : k \in {"rejected", "unparsable", "null"}}
  \cup {Response("status", s, NoWindow, NoWindow, NoWindow) : s \in {401, 500}}
  \cup {Response("usage", 200, p, s, r) : p, s, r \in WindowValues}

\* response.ok
ResponseOk(response) == response.status \in 200..299

\* { source: "codex", label: "Codex", used: 0, error }
CodexError(message) ==
  [source |-> "codex", label |-> "Codex", used |-> Fraction(0, 1),
   hasReset |-> FALSE, resetAt |-> 0, error |-> message]

\* variant: used is the percentage itself
percentUndivided(p) == Fraction(p, 1)

\* used_percent / 100
percentToUsed(p) == Fraction(p, PercentFull)

\* { source: "codex", label, used: used_percent / 100, resetAt: reset_at }
CodexWindow(label, window) ==
  [source |-> "codex", label |-> label, used |-> percentToUsed(window.used_percent),
   hasReset |-> TRUE, resetAt |-> window.reset_at, error |-> Null]

\* what a call of loadCodexQuota did: whether it raised, the requests it
\* sent, the quotas it returned
Outcome(raised, requests, quotas) ==
  [raised |-> raised, requests |-> requests, quotas |-> quotas]

\* variant: the exception of fetch or response.json() leaves the function
RequestFailedUncaught(requests) == Outcome(TRUE, requests, <<>>)

\* catch (err): one error snapshot
RequestFailed(requests) ==
  Outcome(FALSE, requests, <<CodexError("Request failed")>>)

ApiError(status) ==
  CASE status = 401 -> "API error: 401"
    [] status = 500 -> "API error: 500"
    [] OTHER -> "API error"

\* the windows of the body in the order of the three if statements
WindowsOf(data) ==
  <<[label |-> "Codex - 5h Limit", window |-> data.primary],
    [label |-> "Codex - Weekly", window |-> data.secondary],
    [label |-> "Codex - Code Review", window |-> data.review]>>

isPresent(entry) == entry.window.present

resultsOf(data) ==
  LET present == SelectSeq(WindowsOf(data), isPresent)
  IN [i \in 1..Len(present) |-> CodexWindow(present[i].label, present[i].window)]

loadCodexQuota(token, response) ==
  IF token \in {Null, ""}
    THEN Outcome(FALSE, 0, <<CodexError("No --codex-token provided")>>)
  ELSE IF response.kind = "rejected" THEN RequestFailed(1)
  ELSE IF ~ResponseOk(response)
    THEN Outcome(FALSE, 1, <<CodexError(ApiError(response.status))>>)
  ELSE IF response.kind \in {"unparsable", "null"} THEN RequestFailed(1)
  ELSE LET results == resultsOf(response)
       IN Outcome(FALSE, 1,
                  IF Len(results) > 0 THEN results
                  ELSE <<CodexError("No rate limit data")>>)

InitCodex ==
  /\ LoaderIdle
  /\ MergerIdle
  /\ CoordinatorIdle
  /\ CallIdle

CallLoadCodexQuota(token, response) ==
  /\ call' = [fn |-> "loadCodexQuota", token |-> token, response |-> response,
              result |-> loadCodexQuota(token, response)]
  /\ UNCHANGED outsideCall

NextCodex ==
  \E token \in Tokens, response \in Responses : CallLoadCodexQuota(token, response)

SpecCodex == InitCodex /\ [][NextCodex]_vars

\* ---------------------------- the quota panel and the dashboard (spec, 4.4)
MaxResetDays == 2

MsPerMinute == 60 * MsPerSecond
MinutesPerHour == 60
HoursPerDay == 24

\* a duration of days, hours, minutes and seconds, in milliseconds
Duration(d, h, m, s) ==
  (((d * HoursPerDay + h) * MinutesPerHour + m) * 60 + s) * MsPerSecond

\* the durations until a reset, ahead of now and, negated, behind it
DurationParts ==
  [days : 0..MaxResetDays, hours : {0, 3, 23}, minutes : {0, 12, 59},
   seconds : {0, 30, 59}, ahead : BOOLEAN]

durationOf(parts) ==
  LET d == Duration(parts.days, parts.hours, parts.minutes, parts.seconds)
  IN IF parts.ahead THEN d ELSE 0 - d

\* variant: the nearest whole number of units
roundedUnits(d, unit) == (2 * d + unit) \div (2 * unit)

\* flooring fractional remainders
wholeUnits(d, unit) == d \div unit

Relative(kind, major, minor) == [kind |-> kind, major |-> major, minor |-> minor]

\* relative time formatting: the two most significant units
formatReset(d) ==
  LET minutes == wholeUnits(d, MsPerMinute)
      hours == wholeUnits(minutes, MinutesPerHour)
      days == wholeUnits(hours, HoursPerDay)
  IN IF d <= 0 THEN Relative("resetting", 0, 0)
     ELSE IF days >= 1 THEN Relative("days+hours", days, hours % HoursPerDay)
     ELSE IF hours >= 1 THEN Relative("hours+minutes", hours, minutes % MinutesPerHour)
     ELSE Relative("minutes", minutes, 0)

InitReset ==
  /\ LoaderIdle
  /\ MergerIdle
  /\ CoordinatorIdle
  /\ CallIdle

CallFormatReset(parts) ==
  /\ call' = [fn |-> "formatReset", parts |-> parts, d |-> durationOf(parts),
              result |-> formatReset(durationOf(parts))]
  /\ UNCHANGED outsideCall

NextReset == \E parts \in DurationParts : CallFormatReset(parts)

SpecReset == InitReset /\ [][NextReset]_vars

\* the terminal widths of a render: the fallback and the wide threshold
FallbackWidth == 120
DashboardWide == 168
DashboardWidths == {FallbackWidth, DashboardWide}

\* what a file loader gives the renderer: null, or its snapshots
SourceAbsent == [loaded |-> FALSE, quotas |-> <<>>]
SourceLoaded(s) ==
  [loaded |-> TRUE,
   quotas |-> <<[source |-> s, label |-> "5h window", used |-> Fraction(1, 2),
                 hasReset |-> FALSE, resetAt |-> 0, error |-> Null]>>]

\* the percentage rounded to the nearest integer
percentOf(used) == (2 * PercentFull * used.num + used.den) \div (2 * used.den)

NoReset == Relative("none", 0, 0)

Line(s, label, kind, text, percent, reset) ==
  [source |-> s, label |-> label, kind |-> kind, text |-> text,
   percent |-> percent, reset |-> reset]

\* one line per snapshot: the stored error string, or the bar, the percentage
\* and the relative time of the reset
quotaLine(q, now) ==
  IF q.error # Null THEN Line(q.source, q.label, "error", q.error, 0, NoReset)
  ELSE Line(q.source, q.label, "quota", "resets in", percentOf(q.used),
            IF q.hasReset THEN formatReset(q.resetAt - now) ELSE NoReset)

\* group entries by source, sources in alphabetical order
PanelOrder == <<"antigravity", "codex", "multiAccount">>

RECURSIVE linesOf(_, _)
linesOf(quotas, now) ==
  IF quotas = <<>> THEN <<>>
  ELSE <<quotaLine(Head(quotas), now)>> \o linesOf(Tail(quotas), now)

renderQuotaPanel(quotas, now) ==
  LET of(s) == SelectSeq(quotas, LAMBDA q : q.source = s)
  IN linesOf(of(PanelOrder[1]) \o of(PanelOrder[2]) \o of(PanelOrder[3]), now)

\* variant: an absent source is left out of the output
unavailableSilent(s) == <<>>

\* the literal text for a source whose snapshot is absent
unavailableLine(s) ==
  <<Line(s, s, "not configured", "not configured", 0, NoReset)>>

RECURSIVE unavailableLines(_, _)
unavailableLines(data, order) ==
  IF order = <<>> THEN <<>>
  ELSE (IF data[Head(order)].loaded THEN <<>> ELSE unavailableLine(Head(order)))
       \o unavailableLines(data, Tail(order))

RECURSIVE quotasOf(_, _)
quotasOf(data, order) ==
  IF order = <<>> THEN <<>>
  ELSE data[Head(order)].quotas \o quotasOf(data, Tail(order))

\* render(aggregate, snapshotsBySource, width): the usage table and the quota
\* panel, side by side from the wide threshold on, stacked below it
renderDashboard(days, data, width, now) ==
  [raised |-> FALSE,
   layout |-> IF width >= DashboardWide THEN "side by side" ELSE "stacked",
   table |-> renderUsageTable(days, Width(width)),
   lines |-> renderQuotaPanel(quotasOf(data, PanelOrder), now)
               \o unavailableLines(data, PanelOrder)]

\* the responses of the endpoint in a dashboard session
DashboardResponses ==
  {r \in Responses : r.secondary = NoWindow /\ r.review = NoWindow}

\* what the loaders hand to the renderer; codex is what loadCodexQuota returned
DashboardData(multiAccount, antigravity, token, response) ==
  [multiAccount |-> IF multiAccount THEN SourceLoaded("multiAccount") ELSE SourceAbsent,
   antigravity |-> IF antigravity THEN SourceLoaded("antigravity") ELSE SourceAbsent,
   codex |-> [loaded |-> TRUE, quotas |-> loadCodexQuota(token, response).quotas]]

InitDashboard ==
  /\ LoaderIdle
  /\ MergerIdle
  /\ CoordinatorIdle
  /\ CallIdle

CallRenderDashboard(days, multiAccount, antigravity, token, response, width, now) ==
  /\ call' = [fn |-> "renderDashboard", days |-> days,
              multiAccount |-> multiAccount, antigravity |-> antigravity,
              token |-> token, response |-> response, width |-> width,
              result |-> renderDashboard(days,
                           DashboardData(multiAccount, antigravity, token, response),
                           width, now)]
  /\ UNCHANGED outsideCall

NextDashboard ==
  \E days \in 0..MaxDays, multiAccount, antigravity \in BOOLEAN,
     token \in Tokens, response \in DashboardResponses,
     width \in DashboardWidths, now \in {0, MsPerSecond} :
    CallRenderDashboard(days, multiAccount, antigravity, token, response, width, now)

SpecDashboard == InitDashboard /\ [][NextDashboard]_vars

\* ------------------------------------------------- vocabulary of the claims
IdsOf(msgs) == {msgs[i].id : i \in 1..Len(msgs)}

\* ids the session has received from its incremental loads
ReturnedIds == {id \in 1..MaxRows : timesReturned[id] >= 1}

RowIds == 1..Len(store)

\* the largest element of a non-empty set of integers
Largest(S) == CHOOSE x \in S : \A y \in S : y <= x

\* maximum creation timestamp in the store, 0 if there is none
MaxCreated == Largest({0} \cup {store[i].time_created : i \in RowIds})

\* a row that parses and passes the validity filter of the session
ValidRow(i) ==
  store[i].data.parses /\ isValidMessage(rowToMessage(store[i]), providerFilter)

IncReturned == last.kind = "inc"

\* --------------------------------------------------------------- claims

\* C1: an incremental load made with the cursor the previous incremental
\* load returned, the store being untouched in between, returns an empty
\* batch and the cursor it was given.
IdempotentIncrementalLoad ==
  (IncReturned /\ last.chained) =>
    (last.messages = <<>> /\ last.cursor = last.inCursor)

\* a second load in a row, after records had been returned and the cursor moved
IdempotentIncrementalLoadWitness ==
  /\ IncReturned /\ last.chained /\ last.ok
  /\ ReturnedIds # {}
  /\ last.inCursor.lastTimestamp > 0

\* C2: once the incremental loads of a session have caught up, what they
\* returned in total are the records one full load of the store returns: no
\* record missing, none extra.  Stated for stores whose rows all
\* parse and were created after time 0 (those cases are the subject of C11
\* and C8).
FullEqualsIncremental ==
  (/\ IncReturned /\ last.ok
   /\ \A i \in RowIds : store[i].time_created > 0 /\ store[i].data.parses) =>
    ReturnedIds = IdsOf(loadMessages(store, dbOpenable, providerFilter))

\* C3: within one session no record id is returned by more than one
\* incremental load, also when the record is rewritten in place afterwards.
NoRecordReturnedTwice ==
  \A id \in 1..MaxRows : timesReturned[id] <= 1

\* a record that was returned has been rewritten in place since (it no
\* longer passes the filter) and a later load read the store
NoRecordReturnedTwiceWitness ==
  /\ IncReturned /\ last.ok
  /\ \E id \in ReturnedIds :
       /\ store[id].data.parses
       /\ ~ValidRow(id)

\* C4: the cursor an incremental load returns is never smaller than the
\* cursor it was given, whether the read succeeds or fails.
CursorMonotone ==
  IncReturned => last.cursor.lastTimestamp >= last.inCursor.lastTimestamp

\* a load with an advanced cursor that finds nothing newer
CursorMonotoneWitness ==
  /\ IncReturned /\ last.ok
  /\ last.inCursor.lastTimestamp > 0
  /\ last.cursor = last.inCursor
  /\ ~last.chained

\* C5: when the database cannot be opened, loadMessagesIncremental raises
\* nothing and returns an empty batch and the timestamp it was given.
FailedReadKeepsCheckpoint ==
  (IncReturned /\ ~dbOpenable) =>
    /\ ~last.raised
    /\ last.messages = <<>>
    /\ last.cursor.lastTimestamp = last.inCursor.lastTimestamp

\* a failed read with an advanced cursor and unread rows behind it
FailedReadKeepsCheckpointWitness ==
  /\ IncReturned /\ ~dbOpenable
  /\ last.inCursor.lastTimestamp > 0
  /\ \E i \in RowIds : store[i].time_created > last.inCursor.lastTimestamp

\* C6: no load path returns a record with role "user" or without a token
\* breakdown, whatever the cursor and the provider filter.
NoUserOrTokenlessReturned ==
  \A i \in 1..Len(last.messages) :
    last.messages[i].role # "user" /\ last.messages[i].hasTokens

\* a filtered load that read a user record carrying tokens and the filtered
\* provider next to a record it returned
NoUserOrTokenlessReturnedWitness ==
  /\ IncReturned /\ last.ok /\ providerFilter # Null
  /\ last.messages # <<>>
  /\ \E i \in RowIds :
       /\ store[i].time_created > last.inCursor.lastTimestamp
       /\ store[i].data.role = "user" /\ store[i].data.hasTokens
       /\ toLowerCase(providerIdOf(rowToMessage(store[i]))) = providerFilter

\* C7: every record a load path returns has the assistant role.
OnlyAssistantReturned ==
  \A i \in 1..Len(last.messages) : last.messages[i].role = "assistant"

\* C8: a successful incremental load from createCursor() returns what
\* loadMessages returns for the same store and filter, and the maximum
\* creation timestamp of the store (0 if empty) as cursor.
FirstIncrementalEqualsFull ==
  (IncReturned /\ last.ok /\ last.inCursor = createCursor) =>
    /\ last.messages = loadMessages(store, dbOpenable, providerFilter)
    /\ last.cursor.lastTimestamp = MaxCreated

\* C9: a successful incremental load from a non-zero cursor c returns the
\* valid records created after c and the cursor max(c, creation times of
\* the records it returned).
CursorFromReturnedRecords ==
  (IncReturned /\ last.ok /\ last.inCursor.lastTimestamp # 0) =>
    LET c == last.inCursor.lastTimestamp IN
    /\ IdsOf(last.messages) = {i \in RowIds : store[i].time_created > c /\ ValidRow(i)}
    /\ last.cursor.lastTimestamp =
         Largest({c} \cup {store[id].time_created : id \in IdsOf(last.messages)})

\* C10: after a successful incremental load every valid record carrying
\* the store's maximum creation timestamp has been returned to the session,
\* all of them by this load if the cursor was below that timestamp.
MaxTimestampRecordsReturned ==
  (IncReturned /\ last.ok /\ MaxCreated > 0) =>
    \A i \in RowIds :
      (store[i].time_created = MaxCreated /\ ValidRow(i)) =>
        /\ i \in ReturnedIds
        /\ last.inCursor.lastTimestamp < MaxCreated => i \in IdsOf(last.messages)

\* a load path has just returned and the store is as it read it
Returned == last.kind # "none"

\* a row read by the last load that passes the role and token tests
ValidRead(i) ==
  i \in last.read /\ store[i].data.parses
    /\ isValidMessage(rowToMessage(store[i]), Null)

\* C11: an incremental load on a readable database skips an unparsable row
\* individually: it returns every valid record after the cursor, raises
\* nothing and returns a cursor that covers the records it returned.
MalformedRecordSkipped ==
  (IncReturned /\ dbOpenable) =>
    LET c == last.inCursor.lastTimestamp
        due == {i \in RowIds : store[i].time_created > c /\ ValidRow(i)} IN
    /\ ~last.raised
    /\ IdsOf(last.messages) = due
    /\ \A i \in due : store[i].time_created <= last.cursor.lastTimestamp

RECURSIVE Total(_)
Total(f) ==
  IF DOMAIN f = {} THEN 0
  ELSE LET x == CHOOSE x \in DOMAIN f : TRUE IN
       f[x] + Total([y \in DOMAIN f \ {x} |-> f[y]])

Categories == {"input", "output", "cacheWrite", "cacheRead", "reasoning"}

\* indices of the records folded in so far that carry a creation date
FoldedDated == {i \in 1..folded : records[i].timed}

\* those assigned to date d
FoldedOn(d) == {i \in FoldedDated : dateOf(records[i].created) = d}

DaySumsMatchRecords ==
  /\ DOMAIN aggregate = {dateOf(records[i].created) : i \in FoldedDated}
  /\ \A d \in DOMAIN aggregate :
       LET day == aggregate[d] IN
       /\ \A c \in Categories :
            /\ day.sums[c] = Total([i \in FoldedOn(d) |-> records[i].tokens[c]])
            /\ day.sums[c] = Total([p \in DOMAIN day.providerStats |->
                                      day.providerStats[p][c]])
       /\ day.models = {records[i].modelID : i \in FoldedOn(d)}
       /\ day.providers = {records[i].providerID : i \in FoldedOn(d)}
       /\ DOMAIN day.providerStats = day.providers

\* a day entry built by two merges from records of two providers
DaySumsMatchRecordsWitness ==
  /\ Len(cuts) >= 2 /\ 0 < cuts[1] /\ cuts[1] < folded
  /\ \E d \in DOMAIN aggregate :
       /\ Cardinality(aggregate[d].providers) = 2
       /\ \E i \in 1..cuts[1] : i \in FoldedOn(d)
       /\ \E j \in (cuts[1] + 1)..folded : j \in FoldedOn(d)

\* -------------------------------------------- claims about the coordinator
\* no callback is running or suspended
LoopQuiet == ticked /\ inFlight = <<>> /\ unanswered = 0

\* C15: when the loop has run for 65 seconds with prompt loads, the
\* 10-second source has been reloaded at least 6 times and each 60-second
\* source exactly once since the initial load.
StaggeredRefresh ==
  (clock = 65 /\ LoopQuiet) =>
    /\ refreshes["multiAccount"] >= 6
    /\ refreshes["antigravity"] = 1
    /\ refreshes["codex"] = 1

OneAttemptPerDueCycle ==
  unanswered = 0 =>
    \A s \in Sources :
      attempts[s].prev # 0 => attempts[s].last - attempts[s].prev >= intervals[s]

\* C18: after a failed reload of a source whose earlier data was held, the
\* dashboard still holds that data; a source's snapshot is absent only if
\* no load of it has ever succeeded.
SnapshotKeptOnFailure ==
  /\ (outcome.result = "failed" /\ outcome.before = Data)
       => snapshots[outcome.source] = Data
  /\ \A s \in QuotaSources : snapshots[s] = Absent => ~succeeded[s]

\* C19: a reload replaces the snapshot of its source only if it succeeds:
\* after a successful one the source holds fresh data, after a failed one
\* it holds what it held before.
OnlySuccessReplacesSnapshot ==
  outcome.source # "none" =>
    snapshots[outcome.source] = IF outcome.result = "ok" THEN Data ELSE outcome.before

\* the timeout the remote fetch is to carry, in seconds
FetchTimeout == 10

\* C20: no fetch of loadCodexQuota is pending for longer than the timeout:
\* a callback suspended in it has gone on by then.
FetchTimeBounded ==
  /\ unanswered # 0 => Now - unanswered <= FetchTimeout
  /\ \A i \in 1..Len(inFlight) : Now - inFlight[i].now <= FetchTimeout
\* ------------------------------------------- claims about loadCodexQuota
CodexCalled == call.fn = "loadCodexQuota"

\* the quotas are exactly one error snapshot: an error string, used 0
OneErrorSnapshot(quotas) ==
  /\ Len(quotas) = 1
  /\ quotas[1].error # Null
  /\ quotas[1].used.num = 0

PresentLabels(response) ==
  LET present == SelectSeq(WindowsOf(response), isPresent)
  IN [i \in 1..Len(present) |-> present[i].label]

HasWindow(response) ==
  response.kind = "usage" /\ PresentLabels(response) # <<>>

UsedWithinUnitInterval ==
  CodexCalled =>
    LET quotas == call.result.quotas
        present == SelectSeq(WindowsOf(call.response), isPresent)
    IN /\ \A i \in 1..Len(quotas) :
            /\ quotas[i].used.den > 0
            /\ 0 <= quotas[i].used.num
            /\ quotas[i].used.num <= quotas[i].used.den
       /\ (call.token \notin {Null, ""} /\ HasWindow(call.response)) =>
            \A i \in 1..Len(quotas) :
              quotas[i].used.num * PercentFull
                = present[i].window.used_percent * quotas[i].used.den

\* a window that is used up has been returned with used = 1
UsedWithinUnitIntervalWitness ==
  /\ CodexCalled
  /\ \E i \in 1..Len(call.result.quotas) :
       LET s == call.result.quotas[i]
       IN s.error = Null /\ s.used.num = s.used.den /\ s.used.num = PercentFull

\* C24: resetAt of a Codex snapshot is the window's reset_at converted from
\* Unix seconds to milliseconds since the epoch
ResetAtInMilliseconds ==
  (CodexCalled /\ call.token \notin {Null, ""} /\ HasWindow(call.response)) =>
    LET quotas == call.result.quotas
        present == SelectSeq(WindowsOf(call.response), isPresent)
    IN \A i \in 1..Len(quotas) :
         /\ quotas[i].hasReset
         /\ quotas[i].resetAt = present[i].window.reset_at * MsPerSecond

\* ------------------------------------------ claims about renderUsageTable
TableRendered ==
  call.fn = "renderUsageTable" /\ call.days > 0 /\ call.width.given

Shown(result) == {result.columns[i] : i \in 1..Len(result.columns)}

\* C25: renderUsageTable shows Date and Cost at every width, Tokens exactly
\* when width >= 105, Models exactly when width >= 140; the columns shown at
\* a width w1 <= w2 (0 included) are among those shown at w2
ColumnsGrowWithWidth ==
  TableRendered =>
    LET w == call.width.columns
        shown == Shown(call.result)
    IN /\ {"Date", "Cost"} \subseteq shown
       /\ "Tokens" \in shown <=> w >= MediumWidth
       /\ "Models" \in shown <=> w >= WideWidth
       /\ \A w1 \in 0..w :
            Shown(renderUsageTable(call.days, Width(w1))) \subseteq shown

\* ------------------------------------------- claims about the quota panel
\* C28: a duration d until the reset is rendered as the fixed resetting
\* string when d <= 0, as days and hours when d is at least a day, as hours
\* and minutes when it is at least an hour and less than a day, as minutes
\* alone below an hour, every value floored
ResetDurationFloored ==
  call.fn = "formatReset" =>
    LET p == call.parts
    IN call.result =
         IF call.d <= 0 THEN Relative("resetting", 0, 0)
         ELSE IF p.days >= 1 THEN Relative("days+hours", p.days, p.hours)
         ELSE IF p.hours >= 1 THEN Relative("hours+minutes", p.hours, p.minutes)
         ELSE Relative("minutes", p.minutes, 0)

\* 3h 12m 30s has been rendered as 3h 12m
ResetDurationFlooredWitness ==
  /\ call.fn = "formatReset"
  /\ call.d = Duration(0, 3, 12, 30)
  /\ call.result = Relative("hours+minutes", 3, 12)

LinesFor(s) ==
  {i \in 1..Len(call.result.lines) : call.result.lines[i].source = s}

AllSourcesFailed ==
  /\ call.fn = "renderDashboard"
  /\ ~call.multiAccount
  /\ ~call.antigravity
  /\ (call.token \in {Null, ""} \/ ~HasWindow(call.response))

\* C26: when all three quota sources fail, rendering does not raise and its
\* output has a valid usage table and, for each of the three sources, one
\* line that says not configured or gives the error
AllSourcesFailedStillRenders ==
  AllSourcesFailed =>
    /\ ~call.result.raised
    /\ call.result.table = renderUsageTable(call.days, Width(call.width))
    /\ \/ call.result.table.text = "No usage data" /\ call.days = 0
       \/ {"Date", "Cost"} \subseteq Shown(call.result.table)
    /\ \A s \in QuotaSources :
         /\ Cardinality(LinesFor(s)) = 1
         /\ \A i \in LinesFor(s) :
              call.result.lines[i].kind \in {"not configured", "error"}

\* the two files are missing and the endpoint answered 500: three lines
AllSourcesFailedStillRendersWitness ==
  /\ AllSourcesFailed
  /\ call.token = "token"
  /\ call.response.kind = "status"
  /\ call.days > 0
  /\ Len(call.result.lines) = 3

\* C30: a source whose elapsed time has reached its interval at a tick is
\* attempted on that very tick: when the next second begins, no source that
\* was due at the tick before is still waiting for its attempt
DueSourceAttemptedOnItsTick ==
  (~ticked /\ clock > TickPeriod) =>
    \A s \in Sources :
      Due(sourceAges, s, Now - TickPeriod) => attempts[s].last >= Now - TickPeriod

\* ------------------------------------------ claims about the watch session
Folded == {id \in 1..MaxRows : loop.stats[id] >= 1}

\* records folded in by a refresh of the loop, not by the initial load
FoldedByRefresh == Folded \ loop.first.batch

\* C21: every repaint shows an aggregate in which each batch the loader had
\* returned is merged completely, and a cursor that is not ahead of the
\* merged batches: no half-merged batch, no cursor advanced while its batch
\* is not merged; it shows the snapshot table with the updates of the
\* callback that painted
RepaintShowsWholeBatches ==
  loop.entered =>
    LET shown == loop.shown
    IN /\ shown.stats = shown.returned
       /\ shown.watchState = cursor
       /\ shown.stats = loop.stats
       /\ shown.snapshots["codex"] = snapshots["codex"]
       /\ (inFlight = <<>> /\ unanswered = 0) => shown.snapshots = snapshots
       /\ \A id \in 1..MaxRows :
            shown.stats[id] >= 1 =>
              store[id].time_created <= shown.watchState.lastTimestamp

\* a callback has merged a batch of two records and repainted while another
\* callback was still suspended in its fetch
RepaintShowsWholeBatchesWitness ==
  /\ loop.entered
  /\ Cardinality(FoldedByRefresh) >= 2
  /\ Len(inFlight) = 1
  /\ loop.shown.stats = loop.stats

\* C29: no record is folded into the aggregate more than once during a watch
\* session: a callback that overlaps a callback which refreshes the record
\* log does not load from the same cursor and merge the same batch again
NoRecordFoldedTwice ==
  loop.entered =>
    \A id \in 1..MaxRows : loop.stats[id] <= 1 /\ timesReturned[id] <= 1

\* two callbacks overlapped in the codex fetch, both have ended, and the
\* record log was refreshed once, with a record in its batch
NoRecordFoldedTwiceWitness ==
  /\ loop.entered
  /\ inFlight = <<>>
  /\ refreshes["codex"] >= 2
  /\ refreshes["opencode"] = 1
  /\ loop.first.batch # {}
  /\ FoldedByRefresh # {}

\* C27: when the record store is unreadable on the first load, the load
\* returns an empty list without raising, the initial render is No usage
\* data, and the loop is entered and goes on
UnreadableStoreStartsEmpty ==
  (loop.entered /\ ~loop.first.ok) =>
    /\ ~loop.first.raised
    /\ loop.first.batch = {}
    /\ loop.first.text = "No usage data"
    /\ (ticked /\ clock >= TickPeriod) => attempts["multiAccount"].last >= LoopStart + TickPeriod

\* after a first load of an unreadable store the loop has run, and its
\* refresh has folded in a record of the store that became readable
UnreadableStoreStartsEmptyWitness ==
  /\ loop.entered
  /\ ~loop.first.ok
  /\ clock >= TickPeriod
  /\ Folded # {}
  /\ loop.shown.text = "table"

\* the suspended callbacks without the i-th
Without(i) ==
  [j \in 1..(Len(inFlight) - 1) |-> IF j < i THEN inFlight[j] ELSE inFlight[j + 1]]

\* the interval of s has not elapsed at the time now
NotYetDue(s, now) == now - sourceAges[s] < intervals[s]

FileSources == {"multiAccount", "antigravity"}

\* C31: a callback that finds the record log not due leaves the cursor and
\* the aggregate unchanged, and a callback that finds a quota source not due
\* leaves that source's snapshot and last-refresh time unchanged
NotDueLeftUnchanged ==
  [][/\ (~ticked /\ ticked') =>
          /\ \A s \in QuotaSources :
               NotYetDue(s, Now) =>
                 snapshots'[s] = snapshots[s] /\ sourceAges'[s] = sourceAges[s]
          /\ NotYetDue("opencode", Now) =>
               /\ cursor' = cursor
               /\ loop'.stats = loop.stats
               /\ sourceAges'["opencode"] = sourceAges["opencode"]
     /\ Len(inFlight') < Len(inFlight) =>
          \E i \in 1..Len(inFlight) :
            /\ inFlight' = Without(i)
            /\ \A s \in FileSources :
                 snapshots'[s] = snapshots[s] /\ sourceAges'[s] = sourceAges[s]
            /\ NotYetDue("opencode", inFlight[i].now) =>
                 /\ cursor' = cursor
                 /\ loop'.stats = loop.stats
                 /\ sourceAges'["opencode"] = sourceAges["opencode"]
    ]_vars

\* a callback has found no source due, after a refresh that had folded a
\* record into the aggregate
NotDueLeftUnchangedWitness ==
  /\ loop.entered
  /\ ticked
  /\ clock > TickPeriod
  /\ inFlight = <<>>
  /\ lastTick.attempted = {}
  /\ refreshes["opencode"] = 1
  /\ FoldedByRefresh # {}

\* C32: when an incremental load failed, the first incremental load that
\* succeeds after it, made with the cursor the failed load returned, returns
\* every record that was valid and not yet returned when the load failed
\* (and is still valid): the failure makes the session skip nothing.
FailedLoadSkipsNothing ==
  (IncReturned /\ last.ok /\ call.retried) =>
    \A id \in call.pending : ValidRow(id) => id \in IdsOf(last.messages)

\* C33: a record that an incremental load read and dropped because it had
\* no token breakdown, and that was then rewritten in place to carry one,
\* has been returned to the session once an incremental load has read the
\* store successfully after the rewrite.
RewrittenRecordReturned ==
  (IncReturned /\ last.ok) =>
    \A id \in call.tokenless : ValidRow(id) => timesReturned[id] >= 1

\* the records of a batch that carry a creation timestamp
Dated(msgs) == SelectSeq(msgs, LAMBDA m : m.timed)

\* C34: a record without creation timestamp is assigned to no day: a merge
\* leaves the aggregate as the merge of the batch's dated records leaves it,
\* so a batch of undated records changes no day entry and creates none.
UndatedRecordInNoDay ==
  [][LET batch == SubSeq(records, folded + 1, merger'.cuts[Len(merger'.cuts)]) IN
     /\ merger'.aggregate = merge(aggregate, Dated(batch))
     /\ Dated(batch) = <<>> => merger'.aggregate = aggregate]_vars

UndatedRecordInNoDayWitness ==
  /\ Len(records) = 2
  /\ records[1].timed
  /\ ~records[2].timed
  /\ cuts = <<1, 2>>
  /\ DOMAIN aggregate = {dateOf(records[1].created)}

\* C37: the cost of a record is the sum over its token categories of tokens
\* times the model's price per million tokens, divided by one million, with
\* reasoning tokens at the output price and a model that is not in the
\* price table at the default price; 1,000,000 input tokens at $5 per
\* million cost exactly 5.00, on their own and in the day's aggregate.
CostIsTokensTimesPrice ==
  call.fn = "calculateCost" =>
    LET t == call.tokens
        price == getModelPricing(call.modelID) IN
    /\ call.cost = t.input * price.input + t.output * price.output
                     + t.reasoning * price.output
                     + t.cacheRead * price.cacheRead
                     + t.cacheWrite * price.cacheWrite
    /\ call.modelID \notin {"claude-opus-4-5", "gpt-4o"} =>
         \* the default price: $3, $15, $3.75 and $0.30 per million
         call.cost = 60 * t.input + 300 * (t.output + t.reasoning)
                       + 75 * t.cacheWrite + 6 * t.cacheRead
    /\ (call.modelID = "claude-opus-4-5" /\ t = TokenUsage(Million, 0, 0, 0, 0))
         => call.cost = 5 * Dollar
    /\ call.dayCost = call.cost

CostIsTokensTimesPriceWitness ==
  /\ call.fn = "calculateCost"
  /\ call.modelID = "claude-opus-4-5"
  /\ call.tokens = TokenUsage(Million, 0, 0, 0, 0)
  /\ call.dayCost = 5 * Dollar

\* the sum of the elements of a sequence of numbers
RECURSIVE SumOf(_)
SumOf(s) == IF s = <<>> THEN 0 ELSE Head(s) + SumOf(Tail(s))

Rendered == call.fn = "renderUsageTableRows"

\* the rendered table has the token column
ShowsTokens ==
  \E i \in 1..Len(call.result.columns) : call.result.columns[i] = "Tokens"

TotalRowAddsUpPrintedRows ==
  Rendered =>
    LET rows == call.result.rows
        days == call.dailyStats IN
    /\ \A i, j \in 1..Len(rows) : i < j => rows[i].date < rows[j].date
    /\ call.result.total.cost = SumOf([i \in 1..Len(rows) |-> rows[i].cost])
    /\ (call.result.text = "table" /\ ShowsTokens) =>
         call.result.total.tokens =
           formatNumber(SumOf([i \in 1..Len(days) |->
             days[i].stats.input + days[i].stats.cacheRead
               + days[i].stats.cacheWrite + days[i].stats.output]))

\* C36, amended: the day rows are in ascending date order; the Total row
\* prints the sum of the days' costs rounded to the cent, which is within
\* half a cent per day of the sum of the printed day costs, and the figure
\* of the sum over the days of input + cache read + cache write + output,
\* reasoning left out.
TotalRowFormatsSums ==
  Rendered =>
    LET rows == call.result.rows
        days == call.dailyStats
        cost == SumOf([i \in 1..Len(days) |-> days[i].stats.cost])
        printed == SumOf([i \in 1..Len(rows) |-> rows[i].cost]) IN
    /\ Len(rows) = Len(days)
    /\ \A i, j \in 1..Len(rows) : i < j => rows[i].date < rows[j].date
    /\ \A i \in 1..Len(rows) :
         rows[i].cost = formatCost(getStats(days, rows[i].date).cost)
    /\ call.result.total.cost = formatCost(cost)
    /\ 2 * (call.result.total.cost - printed) <= Len(rows)
    /\ 2 * (printed - call.result.total.cost) <= Len(rows)
    /\ (call.result.text = "table" /\ ShowsTokens) =>
         call.result.total.tokens =
           formatNumber(SumOf([i \in 1..Len(days) |->
             days[i].stats.input + days[i].stats.cacheRead
               + days[i].stats.cacheWrite + days[i].stats.output]))

TotalRowFormatsSumsWitness ==
  /\ Rendered
  /\ Len(call.result.rows) = MaxDates
  /\ call.dailyStats[1].date > call.dailyStats[2].date
  /\ ShowsTokens
  /\ call.result.total.cost
       # SumOf([i \in 1..Len(call.result.rows) |-> call.result.rows[i].cost])
  /\ call.dailyStats[1].stats.reasoning > 0

\* C39: showConfig never prints the complete stored token: whatever the
\* token's length, at least one of its characters is neither among the
\* characters printed before the dots nor among those printed after them.
MaskHidesACharacter ==
  (call.fn = "config" /\ call.printed.masked) =>
    \E i \in 1..Len(call.shown.chars) :
      /\ i > Len(call.printed.head)
      /\ i <= Len(call.shown.chars) - Len(call.printed.tail)

\* C38: every database handle a loader opens is closed before the call
\* returns, when it returns records and when the query or the parsing of a
\* row raises: after every call of any of the three loaders no handle is
\* open.
HandleClosedOnReturn ==
  call.fn \in {"loadMessages", "loadRecentMessages", "loadMessagesIncremental"}
    => call.open = 0

HandleClosedOnReturnWitness ==
  /\ call.fn = "loadMessagesIncremental"
  /\ dbOpenable
  /\ call.opened
  /\ call.threw
  /\ call.open = 0

====
